---- MODULE Spec2Model ----
(***************************************************************************)
(* Model of streamlit_jadwal_piket_app.py: one Streamlit script run of     *)
(* main() (sidebar, upload, validation, Generate button, the week loop,    *)
(* preview and export) and of schedule_one_week (daily tiered selection,   *)
(* relaxation, shortage error, the repair pass and the cap assertion).     *)
(*                                                                         *)
(* The script keeps no st.session_state: every user interaction reruns     *)
(* main() from the top with the current widget values, so a behaviour of   *)
(* the model is one script run started from an arbitrary widget state.     *)
(* Dates are day numbers relative to start_date_choice (day 0).            *)
(***************************************************************************)
EXTENDS Integers, Sequences, FiniteSets, TLC

VARIABLES
    widgets,        \* sidebar values, uploaded file, Generate button (l.251-266, 310)
    SLOT_TEMPLATE,  \* the module-level slot label list (l.32-54)
    ID_HOLIDAYS,    \* the holiday calendar (l.65), as a set of day numbers
    shuffleMode,    \* which outcomes of rng.shuffle are explored (see Arrangements)
    pc,             \* position of the script run
    msgs,           \* what st.error / st.warning / st.info / st.success have shown
    df_people,      \* the validated roster (l.296-298)
    wk,             \* loop variable of main's week loop (l.316)
    all_weeks,      \* main's all_weeks dict (l.312, 326)
    work_days,      \* schedule_one_week: work_days (l.99)
    dayIdx,         \* schedule_one_week: position of the day loop (l.123)
    quota,          \* schedule_one_week: quota dict (l.112)
    last_day,       \* schedule_one_week: last_day dict (l.113)
    rows,           \* schedule_one_week: the list of day tables (l.122, 153)
    week_df,        \* schedule_one_week: the week table (l.160)
    rng,            \* schedule_one_week: the generator (l.110): its seed, its draws so far
    exc,            \* the exception in flight, or NoExc
    log,            \* history: one record per processed day of the current week
    calls,          \* history: number of calls of schedule_one_week in this run
    previewed,      \* history: weeks whose table was shown in the preview
    exported,       \* history: weeks whose table was written to the workbook
    first_run       \* history: the tables of the script run before this one, if any

vars == <<widgets, SLOT_TEMPLATE, ID_HOLIDAYS, shuffleMode, pc, msgs, df_people, wk,
          all_weeks, work_days, dayIdx, quota, last_day, rows, week_df, rng, exc, log,
          calls, previewed, exported, first_run>>

envVars  == <<widgets, SLOT_TEMPLATE, ID_HOLIDAYS, shuffleMode, first_run>>
weekVars == <<work_days, dayIdx, quota, last_day, rows, week_df, rng, log>>
outVars  == <<previewed, exported>>

----------------------------------------------------------------------------
(* Bounds of the model *)

MaxPeople == 3     \* roster sizes 0..MaxPeople
MaxPerDay == 2     \* orang_per_hari and template lengths 1..MaxPerDay
MaxCap == 2        \* max_per_minggu 1..MaxCap
MaxWeeks == 2      \* jumlah_minggu 1..MaxWeeks in the batch runs (SpecBatch)

(* None of last_day (l.113) *)
NoDay == -1

(* None of seed_value (l.257) *)
NoSeed == -1

NoFile == [columns |-> <<>>, rows |-> <<>>, present |-> FALSE]

Min(a, b) == IF a < b THEN a ELSE b

Range(s) == {s[i] : i \in DOMAIN s}

----------------------------------------------------------------------------
(* Input data *)

AllNames == <<"a", "b", "c", "d", "e", "f", "g", "h", "i">>

(* str.strip() on the names the model uploads *)
Strip(s) ==
    CASE s = " a" -> "a"
      [] s = "b " -> "b"
      [] OTHER -> s

(* str.lower() on the column headers the model uploads *)
Lower(s) ==
    CASE s = "Nama" -> "nama"
      [] s = "NAMA" -> "nama"
      [] s = "Team" -> "team"
      [] s = "TEAM" -> "team"
      [] s = "Tim" -> "tim"
      [] OTHER -> s

TeamLabel(i) == IF i % 2 = 1 THEN "LABEL" ELSE "ORDER"

UniqueRoster(n) == [i \in 1..n |-> <<AllNames[i], TeamLabel(i)>>]

(* An uploaded table: its header and its rows, each row <<name cell, team cell>> *)
File(cols, rws) == [columns |-> cols, rows |-> rws, present |-> TRUE]

GoodFiles == {File(<<"Nama", "Team">>, UniqueRoster(n)) : n \in 0..MaxPeople}
                \cup {File(<<"NAMA", "team">>, UniqueRoster(MaxPeople))}

BadFiles ==
    { File(<<"Nama", "Tim">>, UniqueRoster(2)),
      File(<<"Tim", "Team">>, UniqueRoster(2)),
      File(<<"Nama", "Team">>, <<<<"a", "LABEL">>, <<"b", "ORDER">>, <<" a", "LABEL">>>>),
      File(<<"Nama", "Team">>, <<<<"b", "LABEL">>, <<"b ", "LABEL">>>>) }

TemplateLabels == <<"A1,3,5,7", "A2,4,6,8", "B1,3,5,7", "B2,4,6,8", "C1,3,5,7">>

SlotTemplates == {SubSeq(TemplateLabels, 1, n) : n \in 1..MaxPerDay}

HolidayCalendars == { {}, {2}, {0, 1}, {0, 1, 3}, {0, 4}, {0, 1, 2, 3, 4} }

(* start_date_choice.weekday(): a Monday and a Tuesday *)
StartWeekdays == {0, 1}

(* seed_value (l.256-259): "Random setiap run", or the default seed *)
SeedValues == {NoSeed, 42}

(* the runs of one week (DEFAULT_JUMLAH_MINGGU, l.27); runs of several weeks *)
(* are the batch runs below                                                 *)
Widgets ==
    [ jumlah_minggu   : {1},
      orang_per_hari  : 1..MaxPerDay,
      max_per_minggu  : 1..MaxCap,
      larang_berturut : BOOLEAN,
      weekday         : StartWeekdays,
      up              : GoodFiles \cup BadFiles \cup {NoFile},
      clicked         : BOOLEAN,
      seed_value      : SeedValues ]

----------------------------------------------------------------------------
(* Parameters schedule_one_week is called with (l.318-325) *)

jumlah_minggu   == widgets.jumlah_minggu
orang_per_hari  == widgets.orang_per_hari
max_per_minggu  == widgets.max_per_minggu
larang_berturut == widgets.larang_berturut
seed_value      == widgets.seed_value

NoExc == [kind |-> "none", date |-> NoDay]

names == [i \in DOMAIN df_people |-> df_people[i].Nama]

Count(s, x) == Cardinality({i \in DOMAIN s : s[i] = x})

RECURSIVE Flatten(_)
Flatten(ss) == IF ss = <<>> THEN <<>> ELSE Head(ss) \o Flatten(Tail(ss))

RECURSIVE SortedSeq(_)
SortedSeq(T) ==
    IF T = {} THEN <<>>
    ELSE LET x == CHOOSE x \in T : \A y \in T : x <= y
         IN  <<x>> \o SortedSeq(T \ {x})

RECURSIVE Arrangements(_, _)
Arrangements(S, m) ==
    IF m = 0 THEN {<<>>}
    ELSE UNION {{<<x>> \o t : t \in Arrangements(S \ {x}, m - 1)} : x \in S}

(* rng.shuffle(group) followed by group[:take]: every sequence of take      *)
(* distinct positions of group can come first.  In mode "subset" only the   *)
(* roster-ordered representative of each set of positions is explored       *)
(* (quota and last_day are updated per picked name, l.156-158, whatever     *)
(* the order inside the day).                                               *)
ShufflePrefixes(group, take) ==
    LET idx == DOMAIN group
        pos == IF shuffleMode = "perm"
               THEN Arrangements(idx, take)
               ELSE {SortedSeq(T) : T \in {U \in SUBSET idx : Cardinality(U) = take}}
    IN  {[i \in 1..take |-> group[s[i]]] : s \in pos}

(* variant: the seed is dropped, every week draws from OS entropy *)
random_seed_dropped(w) == NoSeed

(* random_seed = None if seed_value is None else int(seed_value) + wk  (l.324) *)
random_seed(w) == IF seed_value = NoSeed THEN NoSeed ELSE seed_value + w

(* np.random.default_rng(random_seed)  (l.110).  A generator is known by   *)
(* its seed and the number of draws made from it; without a seed it starts *)
(* from OS entropy and each of its draws can come out any way.             *)
default_rng(s) == [seed |-> s, draws |-> 0]

(* the word a seeded generator yields at its pos-th draw: a function of    *)
(* the seed and of pos, standing for the bit stream of PCG64               *)
Word(seed, pos) == seed * 7 + pos * 3 + 1

(* the order a seeded shuffle leaves the positions idx in, as far as the   *)
(* first m places                                                          *)
RECURSIVE SeededOrder(_, _, _)
SeededOrder(idx, m, h) ==
    IF m = 0 THEN <<>>
    ELSE LET n == Len(idx)
             i == (h % n) + 1
         IN  <<idx[i]>> \o SeededOrder(SubSeq(idx, 1, i - 1) \o SubSeq(idx, i + 1, n),
                                       m - 1, h \div n)

(* rng.shuffle(group); group[:take] as draw number pos of rng  (l.131-133, *)
(* 138-140)                                                                *)
Shuffled(group, take, pos) ==
    IF rng.seed = NoSeed THEN ShufflePrefixes(group, take)
    ELSE LET s == SeededOrder([i \in DOMAIN group |-> i], take, Word(rng.seed, pos))
         IN  {[i \in 1..take |-> group[s[i]]]}

(* rng.choice(candidates) as draw number pos of rng  (l.177) *)
Choice(candidates, pos) ==
    IF rng.seed = NoSeed THEN Range(candidates)
    ELSE {candidates[(Word(rng.seed, pos) % Len(candidates)) + 1]}

----------------------------------------------------------------------------
(* workdays_in_week (l.78-84) *)

RECURSIVE WorkdaysFrom(_, _)
WorkdaysFrom(monday_date, i) ==
    IF i >= 5 THEN <<>>
    ELSE LET d == monday_date + i
         IN  (IF d \notin ID_HOLIDAYS THEN <<d>> ELSE <<>>) \o WorkdaysFrom(monday_date, i + 1)

workdays_in_week(monday_date) == WorkdaysFrom(monday_date, 0)

(* monday = start_date_choice + timedelta(days=(wk-1)*7)  (l.317) *)
MondayOf(w) == (w - 1) * 7

(* int(np.ceil(total_slot / max_per_minggu))  (l.103-104) *)
MinPeople(wds) ==
    LET total_slot == Len(wds) * orang_per_hari
    IN  IF max_per_minggu > 0
        THEN (total_slot + max_per_minggu - 1) \div max_per_minggu
        ELSE Len(names)

----------------------------------------------------------------------------
(* schedule_one_week: one day of the loop (l.123-158) *)

(* variant: the tracker of the week before is kept *)
FreshQuotaCarried == IF quota = <<>> THEN [n \in Range(names) |-> 0] ELSE quota

(* quota = {n: 0 for n in names}  (l.112) *)
FreshQuota == [n \in Range(names) |-> 0]

(* last_day = {n: None for n in names}  (l.113) *)
FreshLastDay == [n \in Range(names) |-> NoDay]

(* quota[nm] >= max_per_minggu  (l.116) *)
AtCap(q) == q >= max_per_minggu

(* variant: the subtraction reversed *)
DayAfterReversed(d, last) == last # NoDay /\ last - d = 1

(* (d - last_day[nm]).days == 1  (l.118) *)
DayAfter(d, last) == last # NoDay /\ d - last = 1

(* eligible(nm, d, strict)  (l.115-120) *)
eligible(nm, d, strict) ==
    IF AtCap(quota[nm]) THEN FALSE
    ELSE IF larang_berturut /\ strict /\ DayAfter(d, last_day[nm]) THEN FALSE
    ELSE TRUE

(* variant: the tiers visited from the highest count down *)
TierGroupDescending(target_q, d, picks) ==
    SelectSeq(names, LAMBDA n : quota[n] = max_per_minggu - 1 - target_q
                                  /\ eligible(n, d, TRUE) /\ n \notin Range(picks))

(* variant: only the tier of count 0 is visited *)
TierGroupFirstOnly(target_q, d, picks) ==
    SelectSeq(names, LAMBDA n : target_q = 0 /\ quota[n] = target_q /\ eligible(n, d, TRUE)
                                  /\ n \notin Range(picks))

(* the list comprehension of l.130 *)
TierGroup(target_q, d, picks) ==
    SelectSeq(names, LAMBDA n : quota[n] = target_q /\ eligible(n, d, TRUE)
                                  /\ n \notin Range(picks))

(* take = min(len(group), remaining)  (l.132, 139) *)
Take(group, remaining) == Min(Len(group), remaining)

(* the tier loop (l.127-134): the pick lists it can end with *)
RECURSIVE TierLoop(_, _, _)
TierLoop(target_q, d, picks) ==
    LET remaining == orang_per_hari - Len(picks)
    IN  IF target_q >= max_per_minggu \/ remaining = 0 THEN {picks}
        ELSE LET group == TierGroup(target_q, d, picks)
             IN  UNION {TierLoop(target_q + 1, d, picks \o pre) :
                            pre \in Shuffled(group, Take(group, remaining),
                                             rng.draws + target_q)}

(* variant: the relaxation forgets the cap *)
RelaxGroupNoCap(picks) == SelectSeq(names, LAMBDA n : n \notin Range(picks))

(* variant: the relaxation forgets who is already picked today *)
RelaxGroupRepick(picks) == SelectSeq(names, LAMBDA n : quota[n] < max_per_minggu)

(* variant: the relaxation keeps the consecutive-day rule *)
RelaxGroupStrict(picks) ==
    SelectSeq(names, LAMBDA n : eligible(n, work_days[dayIdx], TRUE) /\ n \notin Range(picks))

(* the list comprehension of l.137 *)
RelaxGroup(picks) ==
    SelectSeq(names, LAMBDA n : quota[n] < max_per_minggu /\ n \notin Range(picks))

(* the relaxation phase (l.136-141); when it runs the tier loop has not    *)
(* left early (l.128), so max_per_minggu shuffles came before it           *)
Relax(picks) ==
    LET remaining == orang_per_hari - Len(picks)
    IN  IF remaining > 0
        THEN LET group_relax == RelaxGroup(picks)
             IN  {picks \o pre : pre \in Shuffled(group_relax, Take(group_relax, remaining),
                                                   rng.draws + max_per_minggu)}
        ELSE {picks}

(* every outcome of the selection of day d: the picks of the tier loop and *)
(* the final pick list                                                     *)
DayPicks(d) ==
    UNION {{[strict |-> s, picks |-> p] : p \in Relax(s)} : s \in TierLoop(0, d, <<>>)}

(* picks[:orang_per_hari]  (l.147, 156) *)
Taken(picks) == SubSeq(picks, 1, orang_per_hari)

(* variant: the template is laid out from its last label *)
MergeRowsReversed(no, nm, d) ==
    LET hit == SelectSeq(df_people, LAMBDA r : r.Nama = nm)
    IN  [j \in DOMAIN hit |-> [No |-> no, Nama |-> nm, Team |-> hit[j].Team,
                                Gedung |-> SLOT_TEMPLATE[orang_per_hari + 1 - no],
                                Tanggal |-> d]]

(* the rows of df_people a left merge on Nama matches with one pick (l.149) *)
MergeRows(no, nm, d) ==
    LET hit == SelectSeq(df_people, LAMBDA r : r.Nama = nm)
    IN  [j \in DOMAIN hit |-> [No |-> no, Nama |-> nm, Team |-> hit[j].Team,
                                Gedung |-> SLOT_TEMPLATE[no], Tanggal |-> d]]

(* day_df (l.145-152) *)
DayFrame(picks, d) ==
    Flatten([i \in 1..orang_per_hari |-> MergeRows(i, picks[i], d)])

(* variant: the tracker is not updated *)
QuotaAfterStale(picks) == quota

(* quota[nm] += 1 for nm in picks  (l.156-157) *)
QuotaAfter(picks) == [n \in DOMAIN quota |-> quota[n] + Count(picks, n)]

(* last_day[nm] = d for nm in picks  (l.158) *)
LastDayAfter(picks, d) ==
    [n \in DOMAIN last_day |-> IF n \in Range(picks) THEN d ELSE last_day[n]]

(* the shuffles of one day: tier target_q is shuffled unless remaining = 0 *)
(* when it is reached (l.128), the relaxed group if picks are missing      *)
(* after the tiers (l.136)                                                 *)
DayDraws(strict) ==
    Cardinality({t \in 0..(max_per_minggu - 1) :
                    Cardinality({i \in DOMAIN strict : quota[strict[i]] < t}) < orang_per_hari})
        + (IF Len(strict) < orang_per_hari THEN 1 ELSE 0)

(* rng after n more draws *)
Drawn(n) == IF rng.seed = NoSeed THEN rng ELSE [rng EXCEPT !.draws = rng.draws + n]

----------------------------------------------------------------------------
(* schedule_one_week: the repair pass and the cap assertion (l.162-185) *)

NameIdx(n) == CHOOSE i \in DOMAIN AllNames : AllNames[i] = n

TableNames(df) == {df[i].Nama : i \in DOMAIN df}

RowCount(df, n) == Cardinality({i \in DOMAIN df : df[i].Nama = n})

(* week_df.groupby("Nama").size().to_dict()  (l.163) *)
ByPerson(df) == [n \in TableNames(df) |-> RowCount(df, n)]

(* by_person.get(k, 0) *)
Get(by, k) == IF k \in DOMAIN by THEN by[k] ELSE 0

(* violators, in the key order of the groupby (l.164) *)
Violators(df) ==
    LET by == ByPerson(df)
        v  == {n \in DOMAIN by : by[n] > max_per_minggu}
        ix == SortedSeq({NameIdx(n) : n \in v})
    IN  [i \in DOMAIN ix |-> AllNames[ix[i]]]

(* df_people.set_index("Nama").loc[k, "Team"]  (l.179) *)
TeamOf(k) == (CHOOSE r \in Range(df_people) : r.Nama = k).Team

(* variant: people already on duty that day are candidates too *)
CandidatesAnyDay(df, by, ridx) ==
    {k \in Range(names) : k # df[ridx].Nama /\ Get(by, k) < max_per_minggu}

(* candidates of one row (l.172-174) *)
Candidates(df, by, ridx) ==
    LET day == df[ridx].Tanggal
        used_today == {df[i].Nama : i \in {j \in DOMAIN df : df[j].Tanggal = day}}
    IN  {k \in Range(names) : k \notin used_today /\ Get(by, k) < max_per_minggu}

(* the rows the repair pass has rewritten so far: one rng.choice each *)
Swapped(df) == Cardinality({i \in DOMAIN df : df[i] # week_df[i]})

(* the swap of one row (l.178-181) *)
Swap(df, by, ridx, nm, k) ==
    LET by1 == [n \in DOMAIN by \cup {k} |-> IF n = k THEN Get(by, k) + 1 ELSE by[n]]
    IN  [df |-> [df EXCEPT ![ridx].Nama = k, ![ridx].Team = TeamOf(k)],
         by |-> [by1 EXCEPT ![nm] = by1[nm] - 1]]

(* the loop over rows_nm (l.169-182): the states it can end in *)
RECURSIVE RepairRows(_, _, _, _, _)
RepairRows(df, by, nm, ridxs, over) ==
    IF ridxs = <<>> \/ over <= 0 THEN {[df |-> df, by |-> by]}
    ELSE LET ridx == Head(ridxs)
             candidates == Candidates(df, by, ridx)
         IN  IF candidates = {} THEN RepairRows(df, by, nm, Tail(ridxs), over)
             ELSE UNION {LET s == Swap(df, by, ridx, nm, k)
                         IN  RepairRows(s.df, s.by, nm, Tail(ridxs), over - 1) :
                             k \in Choice(SelectSeq(names, LAMBDA c : c \in candidates),
                                          rng.draws + Swapped(df))}

(* the loop over violators (l.166-168): the tables it can end with *)
RECURSIVE RepairViolators(_, _, _)
RepairViolators(df, by, vs) ==
    IF vs = <<>> THEN {df}
    ELSE LET nm == Head(vs)
             over == by[nm] - max_per_minggu
             rows_nm == SortedSeq({i \in DOMAIN df : df[i].Nama = nm})
         IN  UNION {RepairViolators(o.df, o.by, Tail(vs)) :
                        o \in RepairRows(df, by, nm, rows_nm, over)}

RepairOutcomes(df) == RepairViolators(df, ByPerson(df), Violators(df))

(* variant: the assertion is compiled away *)
CapAssertionOff(df) == TRUE

(* (week_df.groupby("Nama").size() <= max_per_minggu).all()  (l.184) *)
CapAssertion(df) == \A n \in TableNames(df) : RowCount(df, n) <= max_per_minggu

----------------------------------------------------------------------------
(* main: input validation (l.262-305) *)

Msg(level, text) == [level |-> level, text |-> text, date |-> NoDay]

(* start_date_choice.weekday() != 0  (l.262) *)
NotMonday == widgets.weekday # 0

(* cols = {c.lower(): c ...}; miss = [c for c in need if c not in cols]  (l.290-293) *)
MissingColumns(columns) ==
    {c \in {"nama", "team"} : c \notin {Lower(columns[i]) : i \in DOMAIN columns}} # {}

ColumnOf(columns, c) == CHOOSE i \in DOMAIN columns : Lower(columns[i]) = c

(* variant: the cells are not stripped *)
RenamedNoStrip(up) ==
    [r \in DOMAIN up.rows |->
        [Nama |-> up.rows[r][ColumnOf(up.columns, "nama")],
         Team |-> up.rows[r][ColumnOf(up.columns, "team")]]]

(* rename and strip (l.296-298) *)
Renamed(up) ==
    [r \in DOMAIN up.rows |->
        [Nama |-> Strip(up.rows[r][ColumnOf(up.columns, "nama")]),
         Team |-> Strip(up.rows[r][ColumnOf(up.columns, "team")])]]

(* df_people["Nama"].duplicated().any()  (l.299) *)
HasDuplicates(df) == \E i, j \in DOMAIN df : i < j /\ df[i].Nama = df[j].Nama

(* len(SLOT_TEMPLATE) != orang_per_hari  (l.303) *)
TemplateMismatch == Len(SLOT_TEMPLATE) # orang_per_hari

----------------------------------------------------------------------------
(* The script run *)

InitRun ==
    /\ pc = "sidebar"
    /\ msgs = {}
    /\ df_people = <<>>
    /\ wk = 0
    /\ all_weeks = <<>>
    /\ work_days = <<>>
    /\ dayIdx = 1
    /\ quota = <<>>
    /\ last_day = <<>>
    /\ rows = <<>>
    /\ week_df = <<>>
    /\ rng = default_rng(NoSeed)
    /\ exc = NoExc
    /\ log = <<>>
    /\ calls = 0
    /\ previewed = {}
    /\ exported = {}

(* no script run came before *)
NoRun == [ran |-> FALSE, all_weeks |-> <<>>]

Init ==
    /\ widgets \in Widgets
    /\ SLOT_TEMPLATE \in SlotTemplates
    /\ ID_HOLIDAYS \in HolidayCalendars
    /\ shuffleMode = "perm"
    /\ first_run = NoRun
    /\ InitRun

(* l.260-263: the start date is read and checked *)
Sidebar ==
    /\ pc = "sidebar"
    /\ msgs' = IF NotMonday
               THEN msgs \cup {Msg("error", "Tanggal mulai harus hari Senin.")}
               ELSE msgs
    /\ pc' = "upload"
    /\ UNCHANGED <<envVars, weekVars, outVars, df_people, wk, all_weeks, exc, calls>>

(* l.266-288: the uploader; without a file the script returns *)
Upload ==
    /\ pc = "upload"
    /\ IF ~widgets.up.present
       THEN /\ msgs' = msgs \cup {Msg("info", "Silakan upload file personel untuk mulai.")}
            /\ pc' = "returned"
       ELSE /\ msgs' = msgs
            /\ pc' = "validate"
    /\ UNCHANGED <<envVars, weekVars, outVars, df_people, wk, all_weeks, exc, calls>>

(* l.290-307: columns, duplicates, template length *)
Validate ==
    /\ pc = "validate"
    /\ IF MissingColumns(widgets.up.columns)
       THEN /\ msgs' = msgs \cup {Msg("error", "Kolom wajib: Nama, Team")}
            /\ pc' = "returned"
            /\ UNCHANGED df_people
       ELSE /\ df_people' = Renamed(widgets.up)
            /\ IF HasDuplicates(df_people')
               THEN /\ msgs' = msgs \cup {Msg("error", "Ada duplikat Nama. Harus unik per orang.")}
                    /\ pc' = "returned"
               ELSE IF TemplateMismatch
               THEN /\ msgs' = msgs \cup {Msg("error", "Jumlah slot template != orang per hari")}
                    /\ pc' = "returned"
               ELSE /\ msgs' = msgs \cup {Msg("success", "Data personel siap")}
                    /\ pc' = "button"
    /\ UNCHANGED <<envVars, weekVars, outVars, wk, all_weeks, exc, calls>>

(* l.310-316: the Generate button; the week loop starts at wk = 1 *)
Button ==
    /\ pc = "button"
    /\ IF widgets.clicked
       THEN /\ pc' = "loop"
            /\ wk' = 1
       ELSE /\ pc' = "returned"
            /\ UNCHANGED wk
    /\ UNCHANGED <<envVars, weekVars, outVars, msgs, df_people, all_weeks, exc, calls>>

(* l.316-325, 99-122: the call of schedule_one_week for week wk, up to the day loop *)
StartWeek ==
    /\ pc = "loop"
    /\ wk <= jumlah_minggu
    /\ calls' = calls + 1
    /\ work_days' = workdays_in_week(MondayOf(wk))
    /\ msgs' = IF Len(names) < MinPeople(work_days')
               THEN msgs \cup {[level |-> "warning", text |-> "Personel < minimum", date |-> MondayOf(wk)]}
               ELSE msgs
    /\ rng' = default_rng(random_seed(wk))
    /\ quota' = FreshQuota
    /\ last_day' = FreshLastDay
    /\ rows' = <<>>
    /\ week_df' = <<>>
    /\ dayIdx' = 1
    /\ log' = <<>>
    /\ pc' = "days"
    /\ UNCHANGED <<envVars, outVars, df_people, wk, all_weeks, exc>>

(* l.123-158: one iteration of the day loop *)
Day ==
    /\ pc = "days"
    /\ dayIdx <= Len(work_days)
    /\ LET d == work_days[dayIdx]
       IN  \E o \in DayPicks(d) :
             IF orang_per_hari - Len(o.picks) > 0
             THEN /\ exc' = [kind |-> "RuntimeError", date |-> d]
                  /\ pc' = "except"
                  /\ UNCHANGED <<dayIdx, quota, last_day, rows, rng, log>>
             ELSE IF Len(SLOT_TEMPLATE) # orang_per_hari
             THEN /\ exc' = [kind |-> "ValueError", date |-> NoDay]
                  /\ pc' = "except"
                  /\ UNCHANGED <<dayIdx, quota, last_day, rows, rng, log>>
             ELSE /\ rows' = Append(rows, DayFrame(Taken(o.picks), d))
                  /\ quota' = QuotaAfter(Taken(o.picks))
                  /\ last_day' = LastDayAfter(Taken(o.picks), d)
                  /\ rng' = Drawn(DayDraws(o.strict))
                  /\ log' = Append(log, [d |-> d, quota |-> quota, last_day |-> last_day,
                                         strict |-> o.strict, picks |-> o.picks])
                  /\ dayIdx' = dayIdx + 1
                  /\ UNCHANGED <<exc, pc>>
    /\ UNCHANGED <<envVars, outVars, msgs, df_people, wk, all_weeks, work_days, week_df, calls>>

(* l.160: pd.concat(rows); it raises ValueError on an empty list *)
Concat ==
    /\ pc = "days"
    /\ dayIdx > Len(work_days)
    /\ IF rows = <<>>
       THEN /\ exc' = [kind |-> "ValueError", date |-> NoDay]
            /\ pc' = "except"
            /\ UNCHANGED week_df
       ELSE /\ week_df' = Flatten(rows)
            /\ pc' = "repair"
            /\ UNCHANGED exc
    /\ UNCHANGED <<envVars, outVars, msgs, df_people, wk, all_weeks, work_days, dayIdx,
                   quota, last_day, rows, rng, log, calls>>

(* l.162-182: the repair pass *)
RepairPass ==
    /\ pc = "repair"
    /\ week_df' \in RepairOutcomes(week_df)
    /\ rng' = Drawn(Swapped(week_df'))
    /\ pc' = "assert"
    /\ UNCHANGED <<envVars, outVars, msgs, df_people, wk, all_weeks, work_days, dayIdx,
                   quota, last_day, rows, exc, log, calls>>

(* l.184-185, 326: the assertion, the return, all_weeks[wk] = week_df *)
Return ==
    /\ pc = "assert"
    /\ IF CapAssertion(week_df)
       THEN /\ all_weeks' = Append(all_weeks, week_df)
            /\ wk' = wk + 1
            /\ pc' = "loop"
            /\ UNCHANGED exc
       ELSE /\ exc' = [kind |-> "AssertionError", date |-> NoDay]
            /\ pc' = "except"
            /\ UNCHANGED <<all_weeks, wk>>
    /\ UNCHANGED <<envVars, weekVars, outVars, msgs, df_people, calls>>

(* l.328-345: the preview, after the loop *)
Preview ==
    /\ pc = "loop"
    /\ wk > jumlah_minggu
    /\ previewed' = DOMAIN all_weeks
    /\ pc' = "export"
    /\ UNCHANGED <<envVars, weekVars, msgs, df_people, wk, all_weeks, exc, calls, exported>>

(* l.347-365: the workbook and the download button *)
Export ==
    /\ pc = "export"
    /\ exported' = DOMAIN all_weeks
    /\ pc' = "done"
    /\ UNCHANGED <<envVars, weekVars, msgs, df_people, wk, all_weeks, exc, calls, previewed>>

(* variant: the try block sits inside the week loop *)
ExceptContinue ==
    /\ pc = "except"
    /\ msgs' = msgs \cup {[level |-> "error", text |-> exc.kind, date |-> exc.date]}
    /\ pc' = "loop"
    /\ wk' = wk + 1
    /\ UNCHANGED <<envVars, weekVars, outVars, df_people, all_weeks, exc, calls>>

(* l.367-368: except Exception as e: st.error(str(e)) *)
Except ==
    /\ pc = "except"
    /\ msgs' = msgs \cup {[level |-> "error", text |-> exc.kind, date |-> exc.date]}
    /\ pc' = "done"
    /\ UNCHANGED <<envVars, weekVars, outVars, df_people, wk, all_weeks, exc, calls>>

Next ==
    \/ Sidebar
    \/ Upload
    \/ Validate
    \/ Button
    \/ StartWeek
    \/ Day
    \/ Concat
    \/ RepairPass
    \/ Return
    \/ Preview
    \/ Export
    \/ Except

Spec == Init /\ [][Next]_vars

----------------------------------------------------------------------------
(* Scenario runs: one week of five workdays, orang_per_hari = 3,            *)
(* max_per_minggu = 2, a roster of ceil(3 * 5 / 2) = 8 people (Scenario A)  *)
(* or of 7 people (Scenario B), every shuffle outcome up to the order       *)
(* inside a day.                                                            *)

ScenarioWidgets ==
    [ jumlah_minggu   : {1},
      orang_per_hari  : {3},
      max_per_minggu  : {2},
      larang_berturut : BOOLEAN,
      weekday         : {0},
      up              : {File(<<"Nama", "Team">>, UniqueRoster(n)) : n \in {7, 8}},
      clicked         : {TRUE},
      seed_value      : {NoSeed} ]

InitScenario ==
    /\ widgets \in ScenarioWidgets
    /\ SLOT_TEMPLATE = SubSeq(TemplateLabels, 1, 3)
    /\ ID_HOLIDAYS = {}
    /\ shuffleMode = "subset"
    /\ first_run = NoRun
    /\ InitRun

SpecScenario == InitScenario /\ [][Next]_vars

----------------------------------------------------------------------------
(* Batch runs: several weeks, a valid upload, Generate pressed; calendars   *)
(* with a short first week, an empty first week, an empty second week.      *)
(* Every shuffle outcome up to the order inside a day.                      *)

BatchWidgets ==
    [ jumlah_minggu   : 1..MaxWeeks,
      orang_per_hari  : {1, 2},
      max_per_minggu  : {1, 2},
      larang_berturut : BOOLEAN,
      weekday         : {0},
      up              : {File(<<"Nama", "Team">>, UniqueRoster(n)) : n \in {2, 3}},
      clicked         : {TRUE},
      seed_value      : {NoSeed} ]

BatchCalendars == { {}, {0, 1}, {0, 1, 3}, {0, 1, 2, 3, 4}, {7, 8, 9, 10, 11} }

InitBatch ==
    /\ widgets \in BatchWidgets
    /\ SLOT_TEMPLATE = SubSeq(TemplateLabels, 1, orang_per_hari)
    /\ ID_HOLIDAYS \in BatchCalendars
    /\ shuffleMode = "subset"
    /\ first_run = NoRun
    /\ InitRun

SpecBatch == InitBatch /\ [][Next]_vars

----------------------------------------------------------------------------
(* Two script runs in a row: the user presses Generate again with the same  *)
(* widget values, and Streamlit runs main() once more from the top.  The    *)
(* tables of the first run are kept for the comparison.                     *)

RerunWidgets ==
    [ jumlah_minggu   : {2},
      orang_per_hari  : {1, 2},
      max_per_minggu  : {1, 2},
      larang_berturut : BOOLEAN,
      weekday         : {0},
      up              : {File(<<"Nama", "Team">>, UniqueRoster(n)) : n \in {2, 3}},
      clicked         : {TRUE},
      seed_value      : SeedValues ]

RerunCalendars == { {0, 1, 3}, {0, 1, 2, 8, 9, 10} }

InitRerun ==
    /\ widgets \in RerunWidgets
    /\ SLOT_TEMPLATE = SubSeq(TemplateLabels, 1, orang_per_hari)
    /\ ID_HOLIDAYS \in RerunCalendars
    /\ shuffleMode = "perm"
    /\ first_run = NoRun
    /\ InitRun

(* the script run is over and the same widget state is submitted again *)
Rerun ==
    /\ pc = "done"
    /\ ~first_run.ran
    /\ first_run' = [ran |-> TRUE, all_weeks |-> all_weeks]
    /\ pc' = "sidebar"
    /\ msgs' = {}
    /\ df_people' = <<>>
    /\ wk' = 0
    /\ all_weeks' = <<>>
    /\ work_days' = <<>>
    /\ dayIdx' = 1
    /\ quota' = <<>>
    /\ last_day' = <<>>
    /\ rows' = <<>>
    /\ week_df' = <<>>
    /\ rng' = default_rng(NoSeed)
    /\ exc' = NoExc
    /\ log' = <<>>
    /\ calls' = 0
    /\ previewed' = {}
    /\ exported' = {}
    /\ UNCHANGED <<widgets, SLOT_TEMPLATE, ID_HOLIDAYS, shuffleMode>>

NextRerun == Next \/ Rerun

SpecRerun == InitRerun /\ [][NextRerun]_vars

----------------------------------------------------------------------------
(* The repair pass on any week table (l.162-185): schedule_one_week is      *)
(* entered at l.162 with a table of one week whose days each hold           *)
(* orang_per_hari distinct roster members, whatever their weekly totals.    *)

RepairWidgets ==
    [ jumlah_minggu   : {1},
      orang_per_hari  : 1..MaxPerDay,
      max_per_minggu  : 1..MaxCap,
      larang_berturut : {TRUE},
      weekday         : {0},
      up              : {File(<<"Nama", "Team">>, UniqueRoster(n)) : n \in 1..MaxPeople},
      clicked         : {TRUE},
      seed_value      : {NoSeed} ]

(* the tables of one day: orang_per_hari distinct names in some order *)
DayTables(d) ==
    {DayFrame(p, d) : p \in ShufflePrefixes(names, orang_per_hari)}

RECURSIVE WeekTables(_)
WeekTables(wds) ==
    IF wds = <<>> THEN {<<>>}
    ELSE {<<t>> \o rest : t \in DayTables(Head(wds)), rest \in WeekTables(Tail(wds))}

InitRepair ==
    /\ widgets \in RepairWidgets
    /\ SLOT_TEMPLATE = SubSeq(TemplateLabels, 1, orang_per_hari)
    /\ ID_HOLIDAYS \in {{3, 4}, {0, 2, 4}}
    /\ shuffleMode = "perm"
    /\ df_people = Renamed(widgets.up)
    /\ orang_per_hari <= Len(df_people)
    /\ wk = 1
    /\ calls = 1
    /\ all_weeks = <<>>
    /\ work_days = workdays_in_week(MondayOf(1))
    /\ dayIdx = Len(work_days) + 1
    /\ rows \in WeekTables(work_days)
    /\ week_df = Flatten(rows)
    /\ rng = default_rng(random_seed(1))
    /\ first_run = NoRun
    /\ quota = [n \in Range(names) |-> RowCount(week_df, n)]
    /\ last_day = [n \in Range(names) |-> NoDay]
    /\ log = <<>>
    /\ msgs = {}
    /\ exc = NoExc
    /\ previewed = {}
    /\ exported = {}
    /\ pc = "repair"

NextRepair ==
    \/ RepairPass
    \/ Return
    \/ Preview
    \/ Export
    \/ Except

SpecRepair == InitRepair /\ [][NextRepair]_vars

----------------------------------------------------------------------------
(* Every week table on its way to the return of schedule_one_week: the     *)
(* tables the day loop builds in a script run, and the tables of the repair *)
(* runs above, on which the repair pass has rows to rewrite.                *)

InitTables == Init \/ InitRepair

SpecTables == InitTables /\ [][Next]_vars

----------------------------------------------------------------------------
(* Vocabulary of the properties *)

Roster == Range(names)

(* the table of the week being scheduled, as far as it has been built *)
TableSoFar == Flatten(rows)

(* the rows of table df dated d *)
RowsOn(df, d) == {i \in DOMAIN df : df[i].Tanggal = d}

(* the l.136 branch was taken on the day of log entry e *)
RelaxationTriggered(e) == Len(e.strict) < orang_per_hari

(* strictly eligible at the start of the day of log entry e: under cap and *)
(* not assigned the previous calendar day                                   *)
StrictlyEligibleAt(e, p) ==
    /\ e.quota[p] < max_per_minggu
    /\ ~(larang_berturut /\ e.last_day[p] # NoDay /\ e.last_day[p] + 1 = e.d)

(* the week being scheduled has started and not yet returned *)
InWeek == pc \in {"days", "repair", "assert", "except"} \/ (pc = "done" /\ exc # NoExc)

ShortageShown(d) == [level |-> "error", text |-> "RuntimeError", date |-> d] \in msgs

----------------------------------------------------------------------------
(* C1. Weekly cap: in every week table schedule_one_week has returned, and  *)
(* after every processed day of the week being scheduled (strict tiers or   *)
(* relaxation), every person's number of assignments in the week is at most *)
(* max_per_minggu.                                                          *)
C1_WeeklyCap ==
    /\ \A w \in DOMAIN all_weeks : \A p \in Roster :
           RowCount(all_weeks[w], p) <= max_per_minggu
    /\ pc \in {"days", "repair", "assert"} =>
           \A p \in Roster : /\ quota[p] <= max_per_minggu
                             /\ RowCount(TableSoFar, p) <= max_per_minggu

(* a returned week in which a day was completed by the relaxation phase and *)
(* somebody stands at the cap                                               *)
C1_Witness ==
    /\ Len(all_weeks) >= 1
    /\ pc = "loop"
    /\ \E i \in DOMAIN log : RelaxationTriggered(log[i])
    /\ \E p \in Roster : RowCount(all_weeks[Len(all_weeks)], p) = max_per_minggu

(* C2. Daily headcount and uniqueness: every workday of a returned week has *)
(* exactly orang_per_hari rows, naming pairwise distinct people.            *)
C2_DailyDistinctHeadcount ==
    \A w \in DOMAIN all_weeks :
        LET df == all_weeks[w]
        IN  /\ \A d \in Range(workdays_in_week(MondayOf(w))) :
                   /\ Cardinality(RowsOn(df, d)) = orang_per_hari
                   /\ \A i, j \in RowsOn(df, d) : i # j => df[i].Nama # df[j].Nama
            /\ \A i \in DOMAIN df : df[i].Tanggal \in Range(workdays_in_week(MondayOf(w)))

(* a returned week of at least two workdays, one of them completed by the   *)
(* relaxation phase                                                         *)
C2_Witness ==
    /\ Len(all_weeks) >= 1
    /\ pc = "loop"
    /\ Len(work_days) >= 2
    /\ orang_per_hari >= 2
    /\ \E i \in DOMAIN log : RelaxationTriggered(log[i])

(* C3. Consecutive-day avoidance: with larang_berturut set, as long as the  *)
(* relaxation phase was triggered on no day of the week, nobody is assigned *)
(* on two days of the week that are one calendar day apart.                 *)
C3_NoConsecutiveDays ==
    (/\ pc \in {"days", "repair", "assert"}
     /\ larang_berturut
     /\ \A i \in DOMAIN log : ~RelaxationTriggered(log[i]))
    => \A i, j \in DOMAIN TableSoFar :
           TableSoFar[i].Nama = TableSoFar[j].Nama
               => TableSoFar[j].Tanggal - TableSoFar[i].Tanggal # 1

(* a finished week without relaxation that holds two calendar-adjacent      *)
(* workdays and a person assigned twice                                     *)
C3_Witness ==
    /\ pc = "assert"
    /\ larang_berturut
    /\ \A i \in DOMAIN log : ~RelaxationTriggered(log[i])
    /\ \E i \in DOMAIN work_days : i > 1 /\ work_days[i] - work_days[i - 1] = 1
    /\ \E p \in Roster : RowCount(week_df, p) >= 2

(* C4. Fairness tiering: on every processed day, a person picked by the     *)
(* tier loop with count c at the start of the day is picked only if every   *)
(* roster member with a lower count who is strictly eligible that day is    *)
(* picked that day too.                                                     *)
C4_FairnessTiering ==
    pc \in {"days", "repair", "assert"} =>
        \A i \in DOMAIN log :
            LET e == log[i]
            IN  \A p \in Range(e.strict) : \A q \in Roster :
                    (e.quota[q] < e.quota[p] /\ StrictlyEligibleAt(e, q))
                        => q \in Range(e.picks)

(* a day on which the tier loop picked from two tiers and left a roster    *)
(* member unpicked                                                          *)
C4_Witness ==
    /\ pc \in {"days", "repair", "assert"}
    /\ \E i \in DOMAIN log :
          LET e == log[i]
          IN  /\ \E p, q \in Range(e.strict) : e.quota[q] < e.quota[p]
              /\ \E r \in Roster : r \notin Range(e.picks)

(* the roster is smaller than ceil(W * orang_per_hari / max_per_minggu) for *)
(* the W workdays wds: all of it at the cap cannot fill the week's slots    *)
Insufficient(wds) ==
    Len(names) * max_per_minggu < Len(wds) * orang_per_hari

(* the warning of l.106 was shown in the call for week w *)
Warned(w) == [level |-> "warning", text |-> "Personel < minimum", date |-> MondayOf(w)] \in msgs

C6_AllOrNothing ==
    /\ exc # NoExc =>
          /\ pc \in {"except", "done"}
          /\ calls = wk
          /\ Len(all_weeks) = wk - 1
          /\ previewed = {}
          /\ exported = {}
    /\ (pc = "done" /\ exc # NoExc) =>
          [level |-> "error", text |-> exc.kind, date |-> exc.date] \in msgs
    /\ (previewed # {} \/ exported # {} \/ pc = "export") =>
          /\ exc = NoExc
          /\ calls = jumlah_minggu
          /\ Len(all_weeks) = jumlah_minggu
          /\ previewed = 1..jumlah_minggu

(* week 1 was completed, week 2 raised, the run ended *)
C6_Witness ==
    /\ pc = "done"
    /\ exc # NoExc
    /\ wk = 2
    /\ Len(all_weeks) = 1
    /\ Len(all_weeks[1]) > 0

(* C7 (as claimed). A start date that is not a Monday blocks the run:       *)
(* schedule_one_week is never called and nothing is previewed or exported.  *)
C7_NonMondayBlocksRun ==
    widgets.weekday # 0 => calls = 0 /\ previewed = {} /\ exported = {}

(* the uploaded header has no column named c, whatever the case *)
LacksColumn(c) ==
    \A i \in DOMAIN widgets.up.columns : Lower(widgets.up.columns[i]) # c

(* two rows of the upload hold the same name once trimmed *)
DuplicateTrimmedName ==
    /\ ~LacksColumn("nama")
    /\ LET c == ColumnOf(widgets.up.columns, "nama")
           r == widgets.up.rows
       IN  \E i, j \in DOMAIN r : i # j /\ Strip(r[i][c]) = Strip(r[j][c])

(* the inputs the validation must refuse *)
InvalidInput ==
    /\ widgets.up.present
    /\ \/ LacksColumn("nama")
       \/ LacksColumn("team")
       \/ DuplicateTrimmedName
       \/ Len(SLOT_TEMPLATE) # orang_per_hari

(* C8. Roster and template validation gate scheduling: with an upload that  *)
(* lacks a Nama or Team column (case-insensitively), or holds a duplicate   *)
(* trimmed name, or with len(SLOT_TEMPLATE) # orang_per_hari, main reports  *)
(* the error and returns before the Generate step; schedule_one_week is     *)
(* never called.                                                            *)
C8_ValidationGatesScheduling ==
    InvalidInput =>
        /\ calls = 0
        /\ pc \in {"sidebar", "upload", "validate", "returned"}
        /\ pc = "returned" => \E m \in msgs : m.level = "error" /\ m.text # "Tanggal mulai harus hari Senin."

(* a run with Generate pressed that returned on a name duplicated only      *)
(* after trimming                                                           *)
C8_Witness ==
    /\ pc = "returned"
    /\ widgets.clicked
    /\ DuplicateTrimmedName
    /\ \E i \in DOMAIN widgets.up.rows : widgets.up.rows[i][1] = " a"
    /\ Msg("error", "Ada duplikat Nama. Harus unik per orang.") \in msgs

(* somebody has more rows in df than the cap *)
OverCap(df) == \E p \in TableNames(df) : RowCount(df, p) > max_per_minggu

(* C9. Repair exhaustion is a run failure: a week table in which somebody   *)
(* still exceeds max_per_minggu after the repair pass is never returned;    *)
(* the run ends with an error and without output.                           *)
C9_OverCapNeverReturned ==
    /\ \A w \in DOMAIN all_weeks : ~OverCap(all_weeks[w])
    /\ (pc \notin {"repair", "assert"} /\ OverCap(week_df)) =>
          /\ pc \in {"except", "done"}
          /\ exc.kind = "AssertionError"
          /\ all_weeks = <<>>
          /\ previewed = {}
          /\ exported = {}
          /\ pc = "done" => [level |-> "error", text |-> "AssertionError", date |-> NoDay] \in msgs

(* the repair pass swapped a row, ran out of candidates with somebody still *)
(* over the cap, and the run ended                                          *)
C9_Witness ==
    /\ pc = "done"
    /\ OverCap(week_df)
    /\ week_df # Flatten(rows)

(* the run is Scenario A *)
IsScenarioA ==
    /\ Len(widgets.up.rows) = 8
    /\ max_per_minggu = 2
    /\ orang_per_hari = 3
    /\ Len(workdays_in_week(MondayOf(1))) = 5

(* C10. Scenario A: 8 people, max_per_minggu = 2, orang_per_hari = 3, five  *)
(* consecutive workdays, larang_berturut either way: whatever the shuffles, *)
(* no error is raised, the week has 15 assignments and everybody ends the   *)
(* week with 1 or 2 of them.                                                *)
C10_ScenarioA ==
    IsScenarioA =>
        /\ exc = NoExc
        /\ pc \notin {"returned", "except"}
        /\ pc \in {"repair", "assert"} =>
              /\ Len(week_df) = 15
              /\ \A p \in Roster : RowCount(week_df, p) \in {1, 2}
        /\ \A w \in DOMAIN all_weeks :
              /\ Len(all_weeks[w]) = 15
              /\ \A p \in Roster : RowCount(all_weeks[w], p) \in {1, 2}
        /\ pc = "done" =>
              /\ Len(all_weeks) = 1
              /\ exported = {1}
              /\ \A m \in msgs : m.level \notin {"error", "warning"}

(* Scenario A finished under the consecutive-day rule, one person at cap-1  *)
C10_Witness ==
    /\ IsScenarioA
    /\ larang_berturut
    /\ pc = "done"
    /\ Len(all_weeks[1]) = 15
    /\ Cardinality({p \in Roster : RowCount(all_weeks[1], p) = 1}) = 1

(* the script run is the second one with these widget values *)
SecondRun == first_run.ran

(* C11. Determinism under a seed: with a base seed, every week wk is        *)
(* scheduled by a generator seeded with seed_value + wk, and a second run   *)
(* with the same seed, roster, configuration and start Monday returns, week *)
(* by week, the tables of the first run.                                    *)
C11_SeedDeterminism ==
    seed_value # NoSeed =>
        /\ pc \in {"days", "repair", "assert"} => rng.seed = seed_value + wk
        /\ SecondRun =>
              /\ \A w \in DOMAIN all_weeks :
                     /\ w \in DOMAIN first_run.all_weeks
                     /\ all_weeks[w] = first_run.all_weeks[w]
              /\ pc = "done" => all_weeks = first_run.all_weeks

(* a seeded second run of two weeks is over; the roster is larger than the *)
(* daily headcount, so every day was a draw, and the two weeks are not the *)
(* same table shifted by seven days                                         *)
C11_Witness ==
    /\ seed_value # NoSeed
    /\ SecondRun
    /\ pc = "done"
    /\ Len(all_weeks) = 2
    /\ Len(names) > orang_per_hari
    /\ all_weeks = first_run.all_weeks
    /\ \E i \in DOMAIN all_weeks[1] :
           i \in DOMAIN all_weeks[2] /\ all_weeks[1][i].Nama # all_weeks[2][i].Nama

(* the rows of the week being scheduled that name p and are dated before d *)
RowsBefore(p, d) == {i \in DOMAIN TableSoFar : TableSoFar[i].Nama = p /\ TableSoFar[i].Tanggal < d}

Labelled(df, wds) ==
    /\ Len(df) = Len(wds) * orang_per_hari
    /\ \A j \in DOMAIN wds : \A i \in 1..orang_per_hari :
           LET r == df[(j - 1) * orang_per_hari + i]
           IN  r.No = i /\ r.Gedung = SLOT_TEMPLATE[i] /\ r.Tanggal = wds[j]

(* the day loop of this call has processed every workday of the week *)
BuiltByDayLoop == Len(log) = Len(work_days)

(* C13. Template integrity: in every week table, before and after the      *)
(* repair pass and once returned, the rows of each workday carry the        *)
(* numbers 1..k and the labels of SLOT_TEMPLATE in template order; in a     *)
(* table built by the day loop row i of a day names the i-th pick of that   *)
(* day; the repair pass leaves every row's number, label and date alone     *)
(* and each row's team is the team of the person it names.                  *)
C13_TemplateIntegrity ==
    /\ \A w \in DOMAIN all_weeks : Labelled(all_weeks[w], workdays_in_week(MondayOf(w)))
    /\ pc \in {"repair", "assert"} =>
          /\ Labelled(week_df, work_days)
          /\ BuiltByDayLoop =>
                \A j \in DOMAIN log : \A i \in 1..orang_per_hari :
                    week_df[(j - 1) * orang_per_hari + i].Nama = log[j].picks[i]
    /\ (pc = "loop" /\ Len(all_weeks) = 1 /\ BuiltByDayLoop) =>
          \A j \in DOMAIN log : \A i \in 1..orang_per_hari :
              all_weeks[1][(j - 1) * orang_per_hari + i].Nama = log[j].picks[i]
    /\ pc = "assert" =>
          /\ DOMAIN week_df = DOMAIN TableSoFar
          /\ \A i \in DOMAIN week_df :
                 /\ week_df[i].No = TableSoFar[i].No
                 /\ week_df[i].Gedung = TableSoFar[i].Gedung
                 /\ week_df[i].Tanggal = TableSoFar[i].Tanggal
                 /\ week_df[i].Team = TeamOf(week_df[i].Nama)

(* the repair pass has rewritten the second row of a day in a week of two   *)
(* workdays                                                                 *)
C13_Witness ==
    /\ pc = "assert"
    /\ Len(work_days) >= 2
    /\ orang_per_hari >= 2
    /\ \E i \in DOMAIN week_df :
           /\ week_df[i].No = 2
           /\ week_df[i].Nama # TableSoFar[i].Nama
           /\ week_df[i].Team # TableSoFar[i].Team

(* the rows the repair pass has rewritten *)
Rewritten == {i \in DOMAIN week_df : week_df[i].Nama # TableSoFar[i].Nama}

(* C14. The repair pass is safe on any week table whose days each name      *)
(* distinct people: it keeps the rows and their dates, rewrites only rows   *)
(* of people who were over the cap, puts there somebody who was not on duty *)
(* that day and who stays within the cap, leaves each day's people          *)
(* distinct, pushes nobody over the cap and takes an over-cap person down   *)
(* no further than the cap.                                                 *)
C14_RepairSafe ==
    pc # "repair" =>
        /\ DOMAIN week_df = DOMAIN TableSoFar
        /\ \A i \in DOMAIN week_df : week_df[i].Tanggal = TableSoFar[i].Tanggal
        /\ \A i, j \in DOMAIN week_df :
               (i # j /\ week_df[i].Tanggal = week_df[j].Tanggal)
                   => week_df[i].Nama # week_df[j].Nama
        /\ \A i \in Rewritten :
               /\ RowCount(TableSoFar, TableSoFar[i].Nama) > max_per_minggu
               /\ week_df[i].Nama \in Roster
               /\ \A j \in RowsOn(TableSoFar, TableSoFar[i].Tanggal) :
                      TableSoFar[j].Nama # week_df[i].Nama
               /\ RowCount(TableSoFar, week_df[i].Nama) < max_per_minggu
               /\ RowCount(week_df, week_df[i].Nama) <= max_per_minggu
        /\ \A p \in Roster :
               IF RowCount(TableSoFar, p) <= max_per_minggu
               THEN /\ RowCount(week_df, p) <= max_per_minggu
                    /\ RowCount(week_df, p) >= RowCount(TableSoFar, p)
               ELSE /\ RowCount(week_df, p) >= max_per_minggu
                    /\ RowCount(week_df, p) <= RowCount(TableSoFar, p)

(* a table with somebody over the cap: two rows were rewritten and somebody *)
(* below the cap was brought up to it                                       *)
C14_Witness ==
    /\ pc = "assert"
    /\ OverCap(TableSoFar)
    /\ Cardinality(Rewritten) >= 2
    /\ \E p \in Roster : /\ RowCount(TableSoFar, p) < max_per_minggu
                          /\ RowCount(week_df, p) = max_per_minggu

(* the roster members whose count in tracker q is below the cap *)
UnderCap(q) == {p \in Roster : q[p] < max_per_minggu}

(* the day loop stopped on the shortage error of l.143 *)
ShortageRaised == pc \in {"except", "done"} /\ exc.kind = "RuntimeError"

(* C15. Exact shortage condition: a workday raises the shortage error if    *)
(* and only if fewer than orang_per_hari roster members have a weekly count *)
(* below max_per_minggu at the start of that day, with larang_berturut set  *)
(* or not: every outcome of the day about to be processed is short exactly  *)
(* then, every processed day had enough people under the cap, and the day   *)
(* that raised had not.                                                     *)
C15_ExactShortage ==
    /\ (pc = "days" /\ dayIdx <= Len(work_days)) =>
          \A o \in DayPicks(work_days[dayIdx]) :
              Len(o.picks) < orang_per_hari
                  <=> Cardinality(UnderCap(quota)) < orang_per_hari
    /\ pc \in {"days", "repair", "assert"} =>
          \A i \in DOMAIN log : Cardinality(UnderCap(log[i].quota)) >= orang_per_hari
    /\ ShortageRaised =>
          /\ exc.date = work_days[dayIdx]
          /\ Cardinality(UnderCap(quota)) < orang_per_hari
          /\ \A i \in DOMAIN log : Cardinality(UnderCap(log[i].quota)) >= orang_per_hari

(* under the consecutive-day rule a day with too few strictly eligible      *)
(* people was filled by the relaxation, and a later day of the week raised  *)
(* the shortage                                                             *)
C15_Witness ==
    /\ ShortageRaised
    /\ larang_berturut
    /\ \E i \in DOMAIN log :
           /\ RelaxationTriggered(log[i])
           /\ Len(log[i].picks) = orang_per_hari

(* under cap and not assigned the calendar day before d, by the trackers q *)
(* and l                                                                    *)
StrictlyEligible(q, l, d) ==
    {p \in Roster : /\ q[p] < max_per_minggu
                    /\ ~(larang_berturut /\ l[p] # NoDay /\ l[p] + 1 = d)}

(* the picks of a day that started with trackers q and l: strict by the    *)
(* tier loop, picks at the end of the day                                   *)
LastResort(q, l, d, strict, picks) ==
    /\ Len(picks) > Len(strict) => Cardinality(StrictlyEligible(q, l, d)) < orang_per_hari
    /\ Cardinality(StrictlyEligible(q, l, d)) >= orang_per_hari =>
           \A p \in Range(picks) : p \in StrictlyEligible(q, l, d)
    /\ ~larang_berturut => picks = strict

(* C16. Relaxation is a last resort: on every day, processed or about to   *)
(* be, the relaxation phase adds picks only if fewer than orang_per_hari    *)
(* roster members are strictly eligible at the start of the day; with at    *)
(* least orang_per_hari strictly eligible every pick is strictly eligible;  *)
(* with larang_berturut off the relaxation adds no pick.                    *)
C16_RelaxationLastResort ==
    /\ pc \in {"days", "repair", "assert"} =>
          \A i \in DOMAIN log :
              LastResort(log[i].quota, log[i].last_day, log[i].d, log[i].strict, log[i].picks)
    /\ (pc = "days" /\ dayIdx <= Len(work_days)) =>
          \A o \in DayPicks(work_days[dayIdx]) :
              LastResort(quota, last_day, work_days[dayIdx], o.strict, o.picks)

(* under the consecutive-day rule a day got one pick from the tier loop and *)
(* one from the relaxation, a person assigned the day before                *)
C16_Witness ==
    /\ pc \in {"days", "repair", "assert"}
    /\ larang_berturut
    /\ \E i \in DOMAIN log :
           /\ Len(log[i].strict) >= 1
           /\ Len(log[i].picks) > Len(log[i].strict)
           /\ \E p \in Range(log[i].picks) : log[i].last_day[p] + 1 = log[i].d

(* week w of the run has no workday: its five weekdays are holidays *)
NoWorkdays(w) == workdays_in_week(MondayOf(w)) = <<>>

(* C17 (as claimed). Week without workdays: the call of schedule_one_week  *)
(* for a week whose workday list is empty raises nothing and returns a     *)
(* table without rows, and a run of several weeks that holds such a week   *)
(* still schedules and exports every week.                                 *)
C17_WeekWithoutWorkdays ==
    \A w \in 1..jumlah_minggu :
        NoWorkdays(w) =>
            /\ wk = w => exc = NoExc
            /\ w \in DOMAIN all_weeks => all_weeks[w] = <<>>
            /\ pc = "done" => exported = 1..jumlah_minggu

(* C18. The tracker agrees with the table, so the repair pass is a no-op   *)
(* after the day loop: at the start of every processed day and after it,   *)
(* quota[p] is the number of rows of the week table that name p; in every  *)
(* table the day loop has built nobody is over the cap, the repair pass    *)
(* has nothing to rewrite and leaves the table as it was.                  *)
C18_TrackerAgreesWithTable ==
    /\ pc \in {"days", "repair", "assert"} =>
          \A p \in Roster :
              /\ quota[p] = RowCount(TableSoFar, p)
              /\ \A i \in DOMAIN log : log[i].quota[p] = Cardinality(RowsBefore(p, log[i].d))
    /\ pc = "repair" =>
          /\ week_df = TableSoFar
          /\ ~OverCap(week_df)
          /\ RepairOutcomes(week_df) = {week_df}
    /\ pc = "assert" => week_df = TableSoFar /\ ~OverCap(week_df)

(* a week of three workdays went through the repair pass with somebody at   *)
(* the cap and a day filled by the relaxation                               *)
C18_Witness ==
    /\ pc = "assert"
    /\ Len(log) >= 3
    /\ \E i \in DOMAIN log : RelaxationTriggered(log[i])
    /\ \E p \in Roster : quota[p] = max_per_minggu /\ RowCount(week_df, p) = max_per_minggu

====
